---- MODULE Spec2Model ----
(***************************************************************************)
(* A model of the brainfuck interpreter of src/src/main.rs: the decoder    *)
(* (Instruction::new, get_instructions), the machine state (State,         *)
(* Instructions) and its two operations (State::update_state,              *)
(* State::run_program).                                                    *)
(*                                                                         *)
(* Representation.                                                         *)
(*  - A byte vector (the source file, the decoded Vec<Instruction>) is     *)
(*    kept as a sequence of runs [item, count]: count >= 1 equal items in  *)
(*    a row.  VecLen and VecAt give the length and the 0-based element of  *)
(*    the vector the runs stand for.                                       *)
(*  - memory ([u8; MEMSIZE]) is kept as the function from the indices of   *)
(*    its non-zero cells to their values; Cell reads it, Store writes it.  *)
(*  - usize arithmetic on the instruction pointer is done in the integers; *)
(*    the one place where it can leave 0..2^64-1 (line 66, pointer - 1) is *)
(*    modelled by its two build outcomes, see LoopEnd.                     *)
(*  - standard output is the line-buffered std::io::Stdout: stdout holds   *)
(*    the bytes the completed print! calls of '.' have handed to it, and   *)
(*    buffered says how many of the last of them still sit in its buffer;  *)
(*    a write of the buffer to the file descriptor can be short or fail,   *)
(*    and print! and println! panic when it fails.                         *)
(***************************************************************************)
EXTENDS Integers, Sequences, FiniteSets, TLC

VARIABLES
    source,          \* the bytes read from the program file (runs), never changed
    instructions,    \* Instructions.instructions: the decoded vector (runs)
    pointer,         \* Instructions.pointer: the instruction pointer
    jump_stack,      \* Instructions.jump_stack: Vec<usize>, top is the last element
    memory,          \* State.memory, non-zero cells only
    mem_pointer,     \* State.mem_pointer
    stdin,           \* what is left of standard input: [bytes, fault]
    stdout,          \* the bytes the '.' instructions have printed so far
    buffered,        \* how many of the last bytes of stdout are in the line buffer
    main_pc,         \* main: "run_program" (line 169), "returned" (line 178), or
                     \* "panicked" when its println! failed
    status,          \* "Running", or how run_program ended: "Ok", "Err", "Panic"
    error,           \* the InterpreterError run_program returned, NoError otherwise
    overflow_checks, \* the build: TRUE when integer overflow panics (debug profile)
    executed         \* per instruction kind, the number of update_state calls on it

vars == <<source, instructions, pointer, jump_stack, memory, mem_pointer,
          stdin, stdout, buffered, main_pc, status, error, overflow_checks,
          executed>>

----------------------------------------------------------------------------
(* Program constants *)

MEMSIZE == 30000

U8 == 0..255

\* the capacity of the buffer of std::io::Stdout (LineWriter::new)
BufferCapacity == 1024

InstructionKinds ==
    {"IncPoint", "DecPoint", "IncValue", "DecValue", "LoopBegin", "LoopEnd",
     "GetChar", "PutChar", "Comment"}

----------------------------------------------------------------------------
(* Bounds of the model *)

MaxLen == 3      \* Spec: every source file of at most MaxLen bytes over SourceBytes
MaxInput == 1    \* Spec: standard input holds at most MaxInput bytes
MaxSteps == 64   \* Spec: update_state calls explored per run
MaxRun == 257    \* SpecRuns: the longest source made of '+' only, or of '-' only

----------------------------------------------------------------------------
(* Vectors as runs *)

Run(x, n) == [item |-> x, count |-> n]

Rep(x, n) == IF n = 0 THEN <<>> ELSE <<Run(x, n)>>

RECURSIVE VecLenFrom(_, _)
VecLenFrom(runs, k) ==
    IF k > Len(runs) THEN 0 ELSE runs[k].count + VecLenFrom(runs, k + 1)

VecLen(runs) == VecLenFrom(runs, 1)

RECURSIVE VecAtFrom(_, _, _)
VecAtFrom(runs, k, i) ==
    IF i < runs[k].count THEN runs[k].item
    ELSE VecAtFrom(runs, k + 1, i - runs[k].count)

VecAt(runs, i) == VecAtFrom(runs, 1, i)

Items(runs) == {runs[k].item : k \in 1..Len(runs)}

----------------------------------------------------------------------------
(* Decoder *)

\* the decoder with the code of '/' (47) in the place of that of '.' (46)
Instruction_new_wrong_code(instruction) ==
    CASE instruction = 62 -> "IncPoint"
      [] instruction = 60 -> "DecPoint"
      [] instruction = 43 -> "IncValue"
      [] instruction = 45 -> "DecValue"
      [] instruction = 91 -> "LoopBegin"
      [] instruction = 93 -> "LoopEnd"
      [] instruction = 44 -> "GetChar"
      [] instruction = 47 -> "PutChar"
      [] OTHER -> "Comment"

\* the decoder with the codes of '<' and '>' exchanged
Instruction_new_swapped(instruction) ==
    CASE instruction = 60 -> "IncPoint"
      [] instruction = 62 -> "DecPoint"
      [] instruction = 43 -> "IncValue"
      [] instruction = 45 -> "DecValue"
      [] instruction = 91 -> "LoopBegin"
      [] instruction = 93 -> "LoopEnd"
      [] instruction = 44 -> "GetChar"
      [] instruction = 46 -> "PutChar"
      [] OTHER -> "Comment"

Instruction_new(instruction) ==
    CASE instruction = 62 -> "IncPoint"
      [] instruction = 60 -> "DecPoint"
      [] instruction = 43 -> "IncValue"
      [] instruction = 45 -> "DecValue"
      [] instruction = 91 -> "LoopBegin"
      [] instruction = 93 -> "LoopEnd"
      [] instruction = 44 -> "GetChar"
      [] instruction = 46 -> "PutChar"
      [] OTHER -> "Comment"

get_instructions(input) ==
    [k \in 1..Len(input) |->
        Run(Instruction_new(input[k].item), input[k].count)]

----------------------------------------------------------------------------
(* Memory, errors, output *)

ZeroMemory == [i \in {} |-> 0]

Cell(mem, i) == IF i \in DOMAIN mem THEN mem[i] ELSE 0

Store(mem, i, v) ==
    IF v = 0 THEN [j \in DOMAIN mem \ {i} |-> mem[j]]
    ELSE [j \in DOMAIN mem \cup {i} |-> IF j = i THEN v ELSE mem[j]]

\* a u8 addition that saturates at 255 instead of wrapping
saturating_add(a, b) == IF a + b > 255 THEN 255 ELSE a + b

wrapping_add(a, b) == (a + b) % 256

wrapping_sub(a, b) == IF a >= b THEN a - b ELSE 256 + a - b

NoError == [kind |-> "None", data |-> <<>>]
UnmatchedBeginLoop(positions) == [kind |-> "UnmatchedBeginLoop", data |-> positions]
UnmatchedEndLoop(position) == [kind |-> "UnmatchedEndLoop", data |-> <<position>>]
MemPointerBelowBounds == [kind |-> "MemPointerBelowBounds", data |-> <<>>]
MemPointerAboveBounds == [kind |-> "MemPointerAboveBounds", data |-> <<>>]
NoInput == [kind |-> "NoInput", data |-> <<>>]

\* #[error("...")]: the Display text of each InterpreterError
Display(e) ==
    CASE e.kind = "UnmatchedBeginLoop" -> "Unmatched ']'"
      [] e.kind = "UnmatchedEndLoop" -> "Unmatched ']'"
      [] e.kind = "MemPointerBelowBounds" -> "Memory pointer incremented above MEMSIZE=30000"
      [] e.kind = "MemPointerAboveBounds" -> "Memory pointer decremented below 0"
      [] e.kind = "NoInput" -> "No input given"

\* print!("{}", b as char): the char U+0000..U+00FF of that value, written to
\* standard output in UTF-8
Utf8(b) == IF b < 128 THEN <<b>> ELSE <<192 + (b \div 64), 128 + (b % 64)>>

----------------------------------------------------------------------------
(* Source files and inputs explored *)

IncPointByte == 62
DecPointByte == 60
IncValueByte == 43
DecValueByte == 45
LoopBeginByte == 91
LoopEndByte == 93
GetCharByte == 44
PutCharByte == 46

RecognizedBytes ==
    {IncPointByte, DecPointByte, IncValueByte, DecValueByte, LoopBeginByte,
     LoopEndByte, GetCharByte, PutCharByte}

SourceBytes == RecognizedBytes \cup {10, 255}

InputBytes == {0, 200}

SmallSources ==
    UNION {{[k \in 1..n |-> Run(f[k], 1)] : f \in [1..n -> SourceBytes]} : n \in 0..MaxLen}

Plain(bytes) == [k \in 1..Len(bytes) |-> Run(bytes[k], 1)]

\* sources with nested loops: "++[[-]]", "+[>+[-]<-]", "++[>++[-]<-]", "[[]]",
\* "[+[-]+]", ",[[-],]", and "+[[-]" with its unmatched '['
NestedSources ==
    {Plain(<<43, 43, 91, 91, 45, 93, 93>>),
     Plain(<<43, 91, 62, 43, 91, 45, 93, 60, 45, 93>>),
     Plain(<<43, 43, 91, 62, 43, 43, 91, 45, 93, 60, 45, 93>>),
     Plain(<<91, 91, 93, 93>>),
     Plain(<<91, 43, 91, 45, 93, 43, 93>>),
     Plain(<<44, 91, 91, 45, 93, 44, 93>>),
     Plain(<<43, 91, 91, 45, 93>>)}

\* sources without any recognized byte: n times b, then m times c
CommentSources ==
    {Rep(b, n) \o Rep(c, m) :
        b \in U8 \ RecognizedBytes, c \in {0, 32, 255}, n \in 0..MaxLen, m \in 0..MaxLen}

\* n times '+', and n times '-'
RunSources ==
    {Rep(b, n) : b \in {IncValueByte, DecValueByte}, n \in 0..MaxRun}

\* v times '+', then "[-]"
ClearSources ==
    {Rep(IncValueByte, v) \o <<Run(LoopBeginByte, 1), Run(DecValueByte, 1), Run(LoopEndByte, 1)>> :
        v \in 1..255}

\* MEMSIZE - 1 and MEMSIZE times '>'; MEMSIZE - 1 times '>', then "<>>"
TapeSources ==
    {Rep(IncPointByte, n) : n \in {MEMSIZE - 1, MEMSIZE}}
    \cup {Rep(IncPointByte, MEMSIZE - 1) \o <<Run(DecPointByte, 1), Run(IncPointByte, 2)>>}

\* each recognized byte alone
ByteSources ==
    {Rep(b, 1) : b \in RecognizedBytes}

\* sources that print a line feed: "++++++++++." into an empty line buffer,
\* and "-." then eleven '+' and "." into one that holds the two bytes of U+00FF
LineSources ==
    {Rep(IncValueByte, 10) \o Rep(PutCharByte, 1),
     Rep(DecValueByte, 1) \o Rep(PutCharByte, 1) \o Rep(IncValueByte, 11)
         \o Rep(PutCharByte, 1)}

\* "-[....-]": every cell value from 255 down to 1 printed four times, which
\* fills the line buffer before the first line feed
FillSources ==
    {Rep(DecValueByte, 1) \o Rep(LoopBeginByte, 1) \o Rep(PutCharByte, 4)
         \o Rep(DecValueByte, 1) \o Rep(LoopEndByte, 1)}

Inputs ==
    {[bytes |-> b, fault |-> f] :
        b \in UNION {[1..n -> InputBytes] : n \in 0..MaxInput}, f \in BOOLEAN}

NoStdin == [bytes |-> <<>>, fault |-> FALSE]

----------------------------------------------------------------------------
(* Construction: get_instructions, Instructions::new, State::initialize *)

initialize(src) ==
    /\ source = src
    /\ instructions = get_instructions(src)
    /\ pointer = 0
    /\ jump_stack = <<>>
    /\ memory = ZeroMemory
    /\ mem_pointer = 0
    /\ stdout = <<>>
    /\ buffered = 0
    /\ main_pc = "run_program"
    /\ status = "Running"
    /\ error = NoError
    /\ executed = [k \in InstructionKinds |-> 0]

Init ==
    /\ overflow_checks \in BOOLEAN
    /\ stdin \in Inputs
    /\ \E src \in SmallSources \cup NestedSources \cup LineSources : initialize(src)

InitRuns ==
    /\ overflow_checks \in BOOLEAN
    /\ stdin = NoStdin
    /\ \E src \in CommentSources \cup RunSources \cup ClearSources \cup TapeSources
                    \cup ByteSources \cup FillSources :
           initialize(src)

----------------------------------------------------------------------------
(* State::update_state *)

Current == VecAt(instructions, pointer)

Steps ==
    executed["IncPoint"] + executed["DecPoint"] + executed["IncValue"]
    + executed["DecValue"] + executed["LoopBegin"] + executed["LoopEnd"]
    + executed["GetChar"] + executed["PutChar"] + executed["Comment"]

\* return Err(e): the function returns before line 94; run_program's `?`
\* returns the error at once
Fail(e) ==
    /\ status' = "Err"
    /\ error' = e
    /\ UNCHANGED <<pointer, jump_stack, memory, mem_pointer, stdin, stdout, buffered>>

\* lines 94-95: the instruction pointer advances and the call returns Ok(())
Advance(p) ==
    /\ pointer' = p + 1
    /\ UNCHANGED <<status, error>>

\* IncPoint with the bound test off by one (< MEMSIZE)
IncPoint_off_by_one ==
    IF mem_pointer < MEMSIZE
    THEN /\ mem_pointer' = mem_pointer + 1
         /\ Advance(pointer)
         /\ UNCHANGED <<jump_stack, memory, stdin, stdout, buffered>>
    ELSE Fail(MemPointerAboveBounds)

IncPoint ==
    IF mem_pointer < MEMSIZE - 1
    THEN /\ mem_pointer' = mem_pointer + 1
         /\ Advance(pointer)
         /\ UNCHANGED <<jump_stack, memory, stdin, stdout, buffered>>
    ELSE Fail(MemPointerAboveBounds)

\* DecPoint that stays on cell 0 and goes on instead of failing
DecPoint_clamping ==
    /\ mem_pointer' = IF mem_pointer > 0 THEN mem_pointer - 1 ELSE 0
    /\ Advance(pointer)
    /\ UNCHANGED <<jump_stack, memory, stdin, stdout, buffered>>

DecPoint ==
    IF mem_pointer > 0
    THEN /\ mem_pointer' = mem_pointer - 1
         /\ Advance(pointer)
         /\ UNCHANGED <<jump_stack, memory, stdin, stdout, buffered>>
    ELSE Fail(MemPointerBelowBounds)

IncValue ==
    /\ memory' = Store(memory, mem_pointer, wrapping_add(Cell(memory, mem_pointer), 1))
    /\ Advance(pointer)
    /\ UNCHANGED <<jump_stack, mem_pointer, stdin, stdout, buffered>>

DecValue ==
    /\ memory' = Store(memory, mem_pointer, wrapping_sub(Cell(memory, mem_pointer), 1))
    /\ Advance(pointer)
    /\ UNCHANGED <<jump_stack, mem_pointer, stdin, stdout, buffered>>

\* LoopBegin that pushes the position after the '[' instead of its own
LoopBegin_push_next ==
    /\ jump_stack' = Append(jump_stack, pointer + 1)
    /\ Advance(pointer)
    /\ UNCHANGED <<memory, mem_pointer, stdin, stdout, buffered>>

LoopBegin ==
    /\ jump_stack' = Append(jump_stack, pointer)
    /\ Advance(pointer)
    /\ UNCHANGED <<memory, mem_pointer, stdin, stdout, buffered>>

\* LoopEnd that jumps to the popped position itself, so that line 94 lands one
\* past the LoopBegin, which is then never pushed again
LoopEnd_past_begin ==
    IF jump_stack = <<>>
    THEN Fail(UnmatchedEndLoop(pointer))
    ELSE LET popped == jump_stack[Len(jump_stack)] IN
         /\ jump_stack' = SubSeq(jump_stack, 1, Len(jump_stack) - 1)
         /\ UNCHANGED <<memory, mem_pointer, stdin, stdout, buffered>>
         /\ IF Cell(memory, mem_pointer) # 0
            THEN Advance(popped)
            ELSE Advance(pointer)

\* LoopEnd that tests the cell before it pops: on a zero cell it goes on without
\* looking at the jump stack
LoopEnd_cell_first ==
    IF Cell(memory, mem_pointer) = 0
    THEN /\ Advance(pointer)
         /\ UNCHANGED <<jump_stack, memory, mem_pointer, stdin, stdout, buffered>>
    ELSE IF jump_stack = <<>>
    THEN Fail(UnmatchedEndLoop(pointer))
    ELSE /\ jump_stack' = SubSeq(jump_stack, 1, Len(jump_stack) - 1)
         /\ UNCHANGED <<memory, mem_pointer, stdin, stdout, buffered>>
         /\ Advance(jump_stack[Len(jump_stack)] - 1)

\* LoopEnd with the test of the cell inverted: it jumps back on a zero cell
LoopEnd_inverted ==
    IF jump_stack = <<>>
    THEN Fail(UnmatchedEndLoop(pointer))
    ELSE LET popped == jump_stack[Len(jump_stack)] IN
         /\ jump_stack' = SubSeq(jump_stack, 1, Len(jump_stack) - 1)
         /\ UNCHANGED <<memory, mem_pointer, stdin, stdout, buffered>>
         /\ IF Cell(memory, mem_pointer) = 0
            THEN IF popped - 1 < 0 /\ overflow_checks
                 THEN /\ status' = "Panic"
                      /\ UNCHANGED <<pointer, error>>
                 ELSE Advance(popped - 1)
            ELSE Advance(pointer)

\* Line 66 computes pointer - 1 in usize.  For a popped position 0 a build with
\* overflow checks panics there (the stack already popped); a build without
\* them stores 2^64 - 1, which line 94 wraps back to 0: the integer -1 stands
\* for 2^64 - 1, to which it is congruent.
LoopEnd ==
    IF jump_stack = <<>>
    THEN Fail(UnmatchedEndLoop(pointer))
    ELSE LET popped == jump_stack[Len(jump_stack)] IN
         /\ jump_stack' = SubSeq(jump_stack, 1, Len(jump_stack) - 1)
         /\ UNCHANGED <<memory, mem_pointer, stdin, stdout, buffered>>
         /\ IF Cell(memory, mem_pointer) # 0
            THEN IF popped - 1 < 0 /\ overflow_checks
                 THEN /\ status' = "Panic"
                      /\ UNCHANGED <<pointer, error>>
                 ELSE Advance(popped - 1)
            ELSE Advance(pointer)

\* GetChar that stores 0 at the end of input and goes on
GetChar_zero_at_end ==
    /\ memory' = Store(memory, mem_pointer,
                       IF stdin.bytes # <<>> THEN Head(stdin.bytes) ELSE 0)
    /\ stdin' = [stdin EXCEPT !.bytes = IF @ # <<>> THEN Tail(@) ELSE @]
    /\ Advance(pointer)
    /\ UNCHANGED <<jump_stack, mem_pointer, stdout, buffered>>

\* stdin().bytes().next().and_then(|result| result.ok()): the next byte, or
\* None at end of input and on a read error
GetChar ==
    IF stdin.bytes # <<>>
    THEN /\ memory' = Store(memory, mem_pointer, Head(stdin.bytes))
         /\ stdin' = [stdin EXCEPT !.bytes = Tail(@)]
         /\ Advance(pointer)
         /\ UNCHANGED <<jump_stack, mem_pointer, stdout, buffered>>
    ELSE Fail(NoInput)

\* print!("{}", cell as char) on the line-buffered standard output.  The bytes
\* of the char go to the buffer; the buffer is written out when they hold a
\* line feed, and before they are stored when they do not fit in the space
\* left.  Writing the buffer out takes one or more writes, each of which can
\* be short or fail, and a write that fails makes print! panic, before line
\* 94: the bytes already written have left the buffer by then.  With a line
\* feed the buffer is written together with it, so that all of the earlier
\* bytes can be out when the write fails; a full buffer is written alone, and
\* a failure leaves at least one of its bytes.
PutChar ==
    LET bytes == Utf8(Cell(memory, mem_pointer))
        line == \E k \in 1..Len(bytes) : bytes[k] = 10
        full == Len(bytes) > BufferCapacity - buffered
    IN  /\ UNCHANGED <<jump_stack, memory, mem_pointer, stdin>>
        /\ IF line \/ full
           THEN \/ /\ stdout' = stdout \o bytes
                   /\ buffered' = IF line THEN 0 ELSE Len(bytes)
                   /\ Advance(pointer)
                \/ /\ status' = "Panic"
                   /\ buffered' \in (IF line THEN 0 ELSE 1)..buffered
                   /\ UNCHANGED <<pointer, error, stdout>>
           ELSE /\ stdout' = stdout \o bytes
                /\ buffered' = buffered + Len(bytes)
                /\ Advance(pointer)

\* Comment that moves the instruction pointer itself, before line 94 does
Comment_double_advance ==
    /\ Advance(pointer + 1)
    /\ UNCHANGED <<jump_stack, memory, mem_pointer, stdin, stdout, buffered>>

\* Comment that returns Ok(()) at once, without reaching line 94
Comment_no_advance ==
    UNCHANGED <<pointer, status, error, jump_stack, memory, mem_pointer, stdin, stdout, buffered>>

Comment ==
    /\ Advance(pointer)
    /\ UNCHANGED <<jump_stack, memory, mem_pointer, stdin, stdout, buffered>>

update_state ==
    /\ executed' = [executed EXCEPT ![Current] = @ + 1]
    /\ UNCHANGED <<source, instructions, overflow_checks, main_pc>>
    /\ CASE Current = "IncPoint" -> IncPoint
         [] Current = "DecPoint" -> DecPoint
         [] Current = "IncValue" -> IncValue
         [] Current = "DecValue" -> DecValue
         [] Current = "LoopBegin" -> LoopBegin
         [] Current = "LoopEnd" -> LoopEnd
         [] Current = "GetChar" -> GetChar
         [] Current = "PutChar" -> PutChar
         [] Current = "Comment" -> Comment

----------------------------------------------------------------------------
(* State::run_program *)

\* the while loop with the result of update_state dropped instead of returned
run_program_loop_ignoring_errors ==
    /\ status \in {"Running", "Err"}
    /\ pointer < VecLen(instructions)
    /\ update_state

\* one turn of the while loop, lines 100-102
run_program_loop ==
    /\ status = "Running"
    /\ pointer < VecLen(instructions)
    /\ update_state

\* run_program without the test of the jump stack
run_program_return_unchecked ==
    /\ status = "Running"
    /\ ~(pointer < VecLen(instructions))
    /\ status' = "Ok" /\ error' = NoError
    /\ UNCHANGED <<source, instructions, pointer, jump_stack, memory, mem_pointer,
                   stdin, stdout, buffered, main_pc, overflow_checks, executed>>

\* lines 103-109, once the loop has ended
run_program_return ==
    /\ status = "Running"
    /\ ~(pointer < VecLen(instructions))
    /\ IF jump_stack = <<>>
       THEN status' = "Ok" /\ error' = NoError
       ELSE status' = "Err" /\ error' = UnmatchedBeginLoop(jump_stack)
    /\ UNCHANGED <<source, instructions, pointer, jump_stack, memory, mem_pointer,
                   stdin, stdout, buffered, main_pc, overflow_checks, executed>>

\* main, lines 169-176: the text it hands to println! once run_program has
\* returned (nothing when the process has panicked or the run is not over)
main_report ==
    CASE status = "Ok" -> <<"\nSuccessfully completed program">>
      [] status = "Err" -> <<"\nInterpreter Error: ", Display(error)>>
      [] OTHER -> <<>>

\* main, lines 169-178: println! of main_report.  The text ends (and begins)
\* with a line feed, so the line buffer is written out, in one or more writes:
\* main returns Ok(()) when they all succeed, and panics when one fails, any
\* number of the buffered bytes being written by then.
main_println ==
    /\ main_pc = "run_program"
    /\ status \in {"Ok", "Err"}
    /\ \/ main_pc' = "returned" /\ buffered' = 0
       \/ main_pc' = "panicked" /\ buffered' \in 0..buffered
    /\ UNCHANGED <<source, instructions, pointer, jump_stack, memory, mem_pointer,
                   stdin, stdout, status, error, overflow_checks, executed>>

Next ==
    \/ Steps < MaxSteps /\ run_program_loop
    \/ run_program_return
    \/ main_println

Spec == Init /\ [][Next]_vars

\* the long programs of InitRuns all halt: they are run to their end
NextRuns ==
    \/ run_program_loop
    \/ run_program_return
    \/ main_println

SpecRuns == InitRuns /\ [][NextRuns]_vars

----------------------------------------------------------------------------
(* Properties *)

\* the run is in its loop, about to call update_state on an instruction of kind k
About(k) ==
    /\ status = "Running"
    /\ pointer < VecLen(instructions)
    /\ Current = k

Halted == status # "Running"

\* C1 (SpecRuns): the data pointer is always a tape index 0..MEMSIZE-1.  In a
\* source made of '>' only, every '>' executed while the data pointer is below
\* MEMSIZE-1 succeeds and moves it by one (so MEMSIZE-1 of them end with success
\* at MEMSIZE-1), and the MEMSIZE-th fails with MemPointerAboveBounds, the data
\* pointer still MEMSIZE-1.  MemPointerAboveBounds is only ever returned by a '>'
\* on the last cell.
C1_PointerWithinTape ==
    /\ mem_pointer \in 0..(MEMSIZE - 1)
    /\ (status = "Err" /\ error.kind = "MemPointerAboveBounds") =>
           /\ error = MemPointerAboveBounds
           /\ Current = "IncPoint"
           /\ mem_pointer = MEMSIZE - 1
    /\ (source # <<>> /\ Items(source) = {IncPointByte}) =>
           /\ status \in {"Running", "Ok", "Err"}
           /\ status \in {"Running", "Ok"} =>
                  /\ mem_pointer = pointer
                  /\ executed["IncPoint"] = pointer
           /\ status = "Ok" => pointer = VecLen(source)
           /\ VecLen(source) <= MEMSIZE - 1 => status # "Err"
           /\ status = "Err" =>
                  /\ error = MemPointerAboveBounds
                  /\ pointer = MEMSIZE - 1
                  /\ executed["IncPoint"] = MEMSIZE

C1_Witness ==
    /\ source = Rep(IncPointByte, MEMSIZE)
    /\ status = "Err"
    /\ error = MemPointerAboveBounds
    /\ mem_pointer = MEMSIZE - 1
    /\ executed["IncPoint"] = MEMSIZE

\* C2 (Spec): a '<' executed with the data pointer on cell 0 fails with
\* MemPointerBelowBounds and leaves tape, data pointer, jump stack and
\* instruction pointer as they were.
C2_DecrementAtZeroFails ==
    [][(About("DecPoint") /\ mem_pointer = 0) =>
          /\ status' = "Err"
          /\ error' = MemPointerBelowBounds
          /\ memory' = memory
          /\ mem_pointer' = mem_pointer
          /\ jump_stack' = jump_stack
          /\ pointer' = pointer]_vars

C2_Witness ==
    /\ status = "Err"
    /\ error = MemPointerBelowBounds
    /\ Current = "DecPoint"
    /\ mem_pointer = 0
    /\ memory # ZeroMemory
    /\ jump_stack # <<>>

\* C3 (SpecRuns): cell arithmetic is modulo 256 and never fails.  A source of N
\* '+' leaves k mod 256 in cell 0 after its first k instructions and halts with
\* success, cell 0 = N mod 256; a source of N '-' leaves (-k) mod 256; no other
\* cell is written.
C3_CellArithmeticWraps ==
    /\ (source # <<>> /\ Items(source) = {IncValueByte}) =>
           /\ status \in {"Running", "Ok"}
           /\ Cell(memory, 0) = pointer % 256
           /\ status = "Ok" => pointer = VecLen(source)
    /\ (source # <<>> /\ Items(source) = {DecValueByte}) =>
           /\ status \in {"Running", "Ok"}
           /\ Cell(memory, 0) = (0 - pointer) % 256
           /\ status = "Ok" => pointer = VecLen(source)
    /\ (source # <<>> /\ Items(source) \subseteq {IncValueByte, DecValueByte}) =>
           /\ DOMAIN memory \subseteq {0}
           /\ mem_pointer = 0
           /\ Steps = pointer

C3_Witness ==
    /\ source = Rep(IncValueByte, 256)
    /\ status = "Ok"
    /\ memory = ZeroMemory
    /\ executed["IncValue"] = 256

\* C4 (SpecRuns): for v in 1..255 the source of v '+' followed by "[-]" never
\* fails, makes at most 4v calls of update_state, and when it has halted it has
\* halted with success, cell 0 = 0, an empty jump stack, and exactly v executed
\* '-'.
C4_ClearLoopRunsVTimes ==
    source \in ClearSources =>
        LET v == source[1].count IN
        /\ status \in {"Running", "Ok"}
        /\ Steps <= 4 * v
        /\ executed["DecValue"] <= v
        /\ Cell(memory, 0) = v - executed["DecValue"] \/ executed["IncValue"] < v
        /\ status = "Ok" =>
               /\ Cell(memory, 0) = 0
               /\ jump_stack = <<>>
               /\ executed["DecValue"] = v
               /\ pointer = VecLen(source)

C4_Witness ==
    /\ source \in ClearSources
    /\ source[1].count = 255
    /\ status = "Ok"
    /\ executed["DecValue"] = 255
    /\ memory = ZeroMemory

\* C5 (Spec): a run that has halted with the instruction pointer at the end of
\* the sequence has returned Ok exactly when the jump stack is empty, and
\* otherwise UnmatchedBeginLoop carrying the jump stack, whose entries are
\* positions of LoopBegin instructions; Ok and UnmatchedBeginLoop are returned
\* only there.  The source "[" ends with UnmatchedBeginLoop([0]).
C5_EndOfProgramVerdict ==
    /\ (Halted /\ pointer >= VecLen(instructions)) =>
           IF jump_stack = <<>>
           THEN status = "Ok" /\ error = NoError
           ELSE /\ status = "Err"
                /\ error = UnmatchedBeginLoop(jump_stack)
                /\ \A i \in 1..Len(error.data) :
                       VecAt(instructions, error.data[i]) = "LoopBegin"
    /\ (status = "Ok" \/ error.kind = "UnmatchedBeginLoop") =>
           pointer = VecLen(instructions)
    /\ (source = <<Run(LoopBeginByte, 1)>> /\ Halted) =>
           status = "Err" /\ error = UnmatchedBeginLoop(<<0>>)

C5_Witness ==
    /\ status = "Err"
    /\ error.kind = "UnmatchedBeginLoop"
    /\ Len(error.data) >= 2
    /\ error.data[1] # error.data[2]

Top == jump_stack[Len(jump_stack)]

\* C6 (Spec): a ']' executed with an empty jump stack fails with
\* UnmatchedEndLoop carrying the instruction pointer of that ']', whatever the
\* current cell holds, and does not move the instruction pointer.
C6_UnmatchedLoopEnd ==
    [][(About("LoopEnd") /\ jump_stack = <<>>) =>
          /\ status' = "Err"
          /\ error' = [kind |-> "UnmatchedEndLoop", data |-> <<pointer>>]
          /\ pointer' = pointer]_vars

C6_Witness ==
    /\ status = "Err"
    /\ error = UnmatchedEndLoop(pointer)
    /\ pointer >= 1
    /\ Cell(memory, mem_pointer) # 0
    /\ jump_stack = <<>>

\* C7 as claimed (Spec): a ']' executed with a non-empty jump stack, when the
\* step completes, leaves the instruction pointer one past the popped position
\* if the current cell is non-zero, and one past the ']' if it is zero.
C7_Original ==
    [][(About("LoopEnd") /\ jump_stack # <<>> /\ status' = "Running") =>
          pointer' = IF Cell(memory, mem_pointer) # 0 THEN Top + 1 ELSE pointer + 1]_vars

\* C7 amended (Spec): a ']' executed with a non-empty jump stack pops it; on a
\* non-zero cell it leaves the instruction pointer AT the popped position, a
\* LoopBegin that is executed (and pushed) again next, except that for a popped
\* position 0 a build with overflow checks panics in the step; on a zero cell
\* it leaves the instruction pointer one past the ']'.
C7_LoopEndLandsOnLoopBegin ==
    [][(About("LoopEnd") /\ jump_stack # <<>>) =>
          /\ jump_stack' = SubSeq(jump_stack, 1, Len(jump_stack) - 1)
          /\ IF Cell(memory, mem_pointer) = 0
             THEN status' = "Running" /\ pointer' = pointer + 1
             ELSE IF Top = 0 /\ overflow_checks
             THEN status' = "Panic"
             ELSE /\ status' = "Running"
                  /\ pointer' = Top
                  /\ VecAt(instructions, pointer') = "LoopBegin"]_vars

C7_Witness ==
    /\ About("LoopBegin")
    /\ pointer >= 1
    /\ pointer < Steps
    /\ executed["LoopEnd"] = 1
    /\ executed["LoopBegin"] = 1
    /\ jump_stack = <<>>
    /\ Cell(memory, mem_pointer) # 0

\* C8 (Spec): a ',' executed when standard input has no byte left, at its end
\* or on a read fault, fails with NoInput and leaves tape, data pointer, jump
\* stack, instruction pointer and output as they were.
C8_NoInputFails ==
    [][(About("GetChar") /\ stdin.bytes = <<>>) =>
          /\ status' = "Err"
          /\ error' = NoInput
          /\ memory' = memory
          /\ mem_pointer' = mem_pointer
          /\ jump_stack' = jump_stack
          /\ pointer' = pointer
          /\ stdout' = stdout]_vars

C8_Witness ==
    /\ status = "Err"
    /\ error = NoInput
    /\ stdin.fault
    /\ executed["GetChar"] = 2
    /\ memory # ZeroMemory

\* C9 as claimed (Spec): a '.' appends exactly one byte, the value of the
\* current cell, to the output, and changes no cell, nor the data pointer, nor
\* the jump stack.
C9_WriteByteAppendsOneByte ==
    [][About("PutChar") =>
          /\ stdout' = Append(stdout, Cell(memory, mem_pointer))
          /\ memory' = memory
          /\ mem_pointer' = mem_pointer
          /\ jump_stack' = jump_stack]_vars

\* C10 (SpecRuns): every byte other than the eight recognized ones decodes to
\* Comment; a source made of such bytes only calls update_state once per byte,
\* never fails, and halts with success, every cell 0, the data pointer 0, the
\* jump stack empty and nothing written.
C10_CommentsDoNothing ==
    Items(source) \cap RecognizedBytes = {} =>
           /\ Items(instructions) \subseteq {"Comment"}
           /\ VecLen(instructions) = VecLen(source)
           /\ status \in {"Running", "Ok"}
           /\ memory = ZeroMemory
           /\ mem_pointer = 0
           /\ jump_stack = <<>>
           /\ stdout = <<>>
           /\ Steps = pointer
           /\ executed["Comment"] = pointer
           /\ pointer <= VecLen(source)
           /\ status = "Ok" => Steps = VecLen(source)

C10_Witness ==
    /\ Len(source) = 2
    /\ Items(source) \cap RecognizedBytes = {}
    /\ source[1].item # source[2].item
    /\ VecLen(source) = 2 * MaxLen
    /\ status = "Ok"
    /\ Steps = VecLen(source)

\* the instruction kind the language gives a source byte
KindOf(b) ==
    IF b = IncPointByte THEN "IncPoint"
    ELSE IF b = DecPointByte THEN "DecPoint"
    ELSE IF b = IncValueByte THEN "IncValue"
    ELSE IF b = DecValueByte THEN "DecValue"
    ELSE IF b = LoopBeginByte THEN "LoopBegin"
    ELSE IF b = LoopEndByte THEN "LoopEnd"
    ELSE IF b = GetCharByte THEN "GetChar"
    ELSE IF b = PutCharByte THEN "PutChar"
    ELSE "Comment"

\* C11 (SpecRuns, whose sources use every byte 0..255): the decoded sequence
\* has the length of the source, run for run, and each of its instructions is
\* the kind of the source byte at the same place: > < + - [ ] , . give
\* IncPoint, DecPoint, IncValue, DecValue, LoopBegin, LoopEnd, GetChar,
\* PutChar and every other byte gives Comment.
C11_DecodeByteForByte ==
    /\ source = <<>> \/ source[1].item \in U8
    /\ Len(instructions) = Len(source)
    /\ VecLen(instructions) = VecLen(source)
    /\ \A k \in 1..Len(source) :
           /\ instructions[k].count = source[k].count
           /\ instructions[k].item = KindOf(source[k].item)
           /\ instructions[k].item \in InstructionKinds
    /\ pointer < VecLen(source) =>
           VecAt(instructions, pointer) = KindOf(VecAt(source, pointer))

C11_Witness ==
    /\ source = <<Run(IncValueByte, 2), Run(LoopBeginByte, 1), Run(DecValueByte, 1),
                  Run(LoopEndByte, 1)>>
    /\ instructions = <<Run("IncValue", 2), Run("LoopBegin", 1), Run("DecValue", 1),
                        Run("LoopEnd", 1)>>
    /\ pointer = 4
    /\ VecAt(instructions, pointer) = "LoopEnd"

\* C12 (Spec): once the run has ended, with the error of a failed step, with
\* the verdict at the end of the program or in a panic, nothing changes any
\* more: no instruction is executed, the error stays the one returned (a step
\* error is not replaced by UnmatchedBeginLoop when the jump stack is not
\* empty), and tape, pointers, jump stack and output keep their values.
C12_HaltedForGood ==
    [][Halted =>
          /\ status' = status
          /\ error' = error
          /\ executed' = executed
          /\ memory' = memory
          /\ mem_pointer' = mem_pointer
          /\ jump_stack' = jump_stack
          /\ pointer' = pointer
          /\ stdout' = stdout
          /\ stdin' = stdin]_vars

C12_Witness ==
    /\ status = "Err"
    /\ error = MemPointerBelowBounds
    /\ jump_stack # <<>>
    /\ pointer < VecLen(instructions) - 1
    /\ Steps = 2

\* C13 as claimed (Spec): a ']' executed with a non-empty jump stack never
\* fails; also for a popped position 0 and a non-zero cell the step succeeds
\* and the run goes on with the instruction pointer in 0..len.
C13_LoopEndNeverFails ==
    [][(About("LoopEnd") /\ jump_stack # <<>>) =>
          /\ status' = "Running"
          /\ pointer' \in 0..VecLen(instructions)]_vars

\* C14 (Spec): every entry of the jump stack is the position of a LoopBegin,
\* is below the instruction pointer, and is below the entry above it.
C14_JumpStackShape ==
    /\ \A i \in 1..Len(jump_stack) :
           /\ jump_stack[i] \in 0..(VecLen(instructions) - 1)
           /\ VecAt(instructions, jump_stack[i]) = "LoopBegin"
           /\ jump_stack[i] < pointer
    /\ \A i \in 1..(Len(jump_stack) - 1) : jump_stack[i] < jump_stack[i + 1]

C14_Witness ==
    /\ status = "Running"
    /\ Len(jump_stack) = 2
    /\ executed["LoopEnd"] >= 1
    /\ executed["LoopBegin"] > 2
    /\ pointer < Steps

\* The static bracket match of an instruction sequence: Depth(ins, i) is the
\* number of '[' less the number of ']' before position i; a sequence is
\* balanced when no prefix closes more than it opens and the whole closes all;
\* Match(ins, j) is the '[' that the ']' at j closes.
Depth(ins, i) ==
    Cardinality({k \in 0..(i - 1) : VecAt(ins, k) = "LoopBegin"})
    - Cardinality({k \in 0..(i - 1) : VecAt(ins, k) = "LoopEnd"})

Balanced(ins) ==
    /\ \A i \in 0..VecLen(ins) : Depth(ins, i) >= 0
    /\ Depth(ins, VecLen(ins)) = 0

Match(ins, j) ==
    CHOOSE i \in 0..(j - 1) :
        /\ VecAt(ins, i) = "LoopBegin"
        /\ Depth(ins, i) = Depth(ins, j + 1)
        /\ \A k \in (i + 1)..j : Depth(ins, k) > Depth(ins, i)

\* C15 (Spec): in a source whose brackets are balanced, whenever a ']' is about
\* to be executed the jump stack is not empty and its top is the position of
\* the '[' matching that ']' in the text, the jump stack holds as many entries
\* as brackets are open at the instruction pointer, and the run never ends
\* with UnmatchedEndLoop or UnmatchedBeginLoop.
C15_StackAgreesWithMatchTable ==
    Balanced(instructions) =>
        /\ About("LoopEnd") =>
               /\ jump_stack # <<>>
               /\ Top = Match(instructions, pointer)
        /\ status = "Running" => Len(jump_stack) = Depth(instructions, pointer)
        /\ error.kind \notin {"UnmatchedEndLoop", "UnmatchedBeginLoop"}

C15_Witness ==
    /\ Balanced(instructions)
    /\ About("LoopEnd")
    /\ Len(jump_stack) = 2
    /\ Top = Match(instructions, pointer)
    /\ jump_stack[1] = Match(instructions, VecLen(instructions) - 1)
    /\ executed["LoopEnd"] >= 2
    /\ pointer < Steps

\* C16 (Spec): the instruction pointer is always in 0..len, and every step that
\* succeeds, other than a ']' on a non-zero cell, moves it forward by exactly
\* one.
C16_PointerAdvancesByOne ==
    /\ [](pointer \in 0..VecLen(instructions))
    /\ [][(/\ status = "Running"
           /\ status' = "Running"
           /\ ~(About("LoopEnd") /\ Cell(memory, mem_pointer) # 0)) =>
              pointer' = pointer + 1]_vars

C16_Witness ==
    /\ status = "Running"
    /\ pointer = VecLen(instructions)
    /\ pointer = 3
    /\ executed["LoopBegin"] = 1
    /\ executed["GetChar"] = 1
    /\ executed["LoopEnd"] = 1
    /\ jump_stack = <<>>

NoLoopEnd == "LoopEnd" \notin Items(instructions)

\* C17 (Spec): a run of a source without ']' makes at most as many calls of
\* update_state as the source has instructions, one per position in order, and
\* while it has not halted it can take a step; it ends with Ok or an error, or,
\* only when a write to standard output fails, with the panic of that '.'; in
\* any source, the instruction pointer only ever decreases in the step of a ']'
\* on a non-zero cell.
C17_NoLoopEndHalts ==
    /\ [](NoLoopEnd =>
             /\ Steps <= VecLen(instructions)
             /\ status = "Panic" => Current = "PutChar"
             /\ Steps = IF \/ status = "Panic"
                           \/ status = "Err" /\ error.kind # "UnmatchedBeginLoop"
                        THEN pointer + 1 ELSE pointer
             /\ Halted \/ ENABLED Next)
    /\ [][pointer' < pointer =>
              About("LoopEnd") /\ Cell(memory, mem_pointer) # 0]_vars

C17_Witness ==
    /\ NoLoopEnd
    /\ Halted
    /\ Steps = VecLen(instructions)
    /\ Steps = 3
    /\ executed["LoopBegin"] = 1
    /\ executed["Comment"] = 1

\* the fault an error description speaks of
FaultNamedBy(text) ==
    CASE text = "Unmatched '['" -> "UnmatchedBeginLoop"
      [] text = "Unmatched ']'" -> "UnmatchedEndLoop"
      [] text = "Memory pointer incremented above MEMSIZE=30000" -> "MemPointerAboveBounds"
      [] text = "Memory pointer decremented below 0" -> "MemPointerBelowBounds"
      [] text = "No input given" -> "NoInput"
      [] OTHER -> "None"

ErrorKinds ==
    {"UnmatchedBeginLoop", "UnmatchedEndLoop", "MemPointerBelowBounds",
     "MemPointerAboveBounds", "NoInput"}

\* C18 as claimed (Spec): the description main prints for a failed run speaks
\* of the fault that occurred, and no other error kind has the same description.
C18_DescriptionIdentifiesFault ==
    status = "Err" =>
        /\ FaultNamedBy(main_report[2]) = error.kind
        /\ \A k \in ErrorKinds \ {error.kind} :
               Display([kind |-> k, data |-> <<>>]) # main_report[2]

====
